---- MODULE Spec2Model ----
(***************************************************************************)
(* A model of package errors (src/errors.go): ExtendedError, its            *)
(* configuration methods, the handling protocol and the package-level      *)
(* Handle dispatcher.                                                      *)
(*                                                                         *)
(* Go strings are sequences of one-character strings, so that trimming,    *)
(* concatenation and substring search are computed and not assumed.        *)
(* A value of type any is [kind |-> "string", s |-> chars] or              *)
(* [kind |-> "int", n |-> number].                                         *)
(* An error value is one of                                                *)
(*   [kind |-> "nil"]                                                      *)
(*   [kind |-> "plain", msg |-> chars, tracer |-> BOOLEAN]  (not ours)     *)
(*   [kind |-> "ptr", ref |-> i]     a *ExtendedError, as New returns      *)
(*   [kind |-> "val", obj |-> rec]   an ExtendedError, as Handle returns   *)
(***************************************************************************)
EXTENDS Integers, Sequences, FiniteSets

VARIABLES
    ErrLogger,   \* package variable, src/errors.go:20
    FailLogger,  \* package variable, src/errors.go:21
    ErrPrinter,  \* package variable, src/errors.go:22
    heap,        \* the ExtendedError objects New allocated; a pointer is an index
    status,      \* "running", "exited" (log.Fatalln) or "panicked" (failed type assertion)
    op,          \* the operation performed last, with its arguments
    ret,         \* what that operation returned
    calls,       \* the print and log functions that operation invoked, in order
    made,        \* the ExtendedError objects that operation constructed
    nops,        \* number of operations performed
    fin,         \* SpecConcat: the argument list of concatMsg
    fout         \* SpecConcat: the result of concatMsg

vars == <<ErrLogger, FailLogger, ErrPrinter, heap, status, op, ret, calls, made, nops, fin, fout>>

(***************************** bounds ***************************************)
MaxInst == 1    \* objects New may allocate
MaxOps == 3     \* operations in one run
MaxDepth == 3   \* deepest call stack pkgerr.WithStack captures in handle
MaxLen == 3     \* longest argument list given to concatMsg in SpecConcat

(***************************** strings **************************************)
LogErr == <<"L","o","g"," ","a","n","d"," ","r","e","t","u","r","n"," ">>
Panic == <<"L","o","g"," ","a","n","d"," ","p","a","n","i","c"," ">>
Fail == <<"L","o","g"," ","a","n","d"," ","e","x","i","t"," ">>

Str(s) == [kind |-> "string", s |-> s]
Int_(n) == [kind |-> "int", n |-> n]

Digit(d) == CASE d = 0 -> "0" [] d = 1 -> "1" [] d = 2 -> "2" [] d = 3 -> "3"
              [] d = 4 -> "4" [] d = 5 -> "5" [] d = 6 -> "6" [] d = 7 -> "7"
              [] d = 8 -> "8" [] d = 9 -> "9"

RECURSIVE Itoa(_)
Itoa(n) == IF n < 10 THEN <<Digit(n)>> ELSE Itoa(n \div 10) \o <<Digit(n % 10)>>

\* fmt.Sprint of one operand: a string as it is, an integer in decimal
Sprint(m) == IF m.kind = "string" THEN m.s
             ELSE IF m.n < 0 THEN <<"-">> \o Itoa(0 - m.n) ELSE Itoa(m.n)

RECURSIVE TrimRight(_)
TrimRight(s) == IF s # <<>> /\ s[Len(s)] = " " THEN TrimRight(SubSeq(s, 1, Len(s) - 1)) ELSE s

(***************************** concatMsg ************************************)
\* the range loop of concatMsg from index i on, em the text built so far;
\* ok = FALSE when the type assertion m.(string) on the first message panics
RECURSIVE ConcatLoop(_, _, _)
ConcatLoop(msg, i, em) ==
    IF i > Len(msg) THEN [ok |-> TRUE, s |-> em]
    ELSE IF i = 1
         THEN IF msg[1].kind # "string" THEN [ok |-> FALSE, s |-> <<>>]
              ELSE ConcatLoop(msg, 2, em \o TrimRight(msg[1].s) \o <<":", " ">>)
         ELSE IF i = Len(msg)
              THEN ConcatLoop(msg, i + 1, em \o Sprint(msg[i]))
              ELSE ConcatLoop(msg, i + 1, em \o Sprint(msg[i]) \o <<",", " ">>)

concatMsg(msg) ==
    IF Len(msg) > 0
    THEN LET r == ConcatLoop(msg, 1, <<>>)
         IN  IF r.ok THEN [ok |-> TRUE, s |-> r.s \o <<"\n">>] ELSE r
    ELSE [ok |-> TRUE, s |-> <<>>]

(***************************** functions ************************************)
LogFuncs == {"errlog", "faillog", "custlog"}    \* values of type LogFunc
PrintFuncs == {"print", "custprint"}            \* values of type PrintFunc

\* Mutant of LogReturns: the fatal logger logs and returns.
LogReturnsAll(fn, elem) == TRUE

\* Whether a call of log function fn with the arguments elem returns.
\* faillog ends in log.Fatalln, which exits the process; errlog and a
\* caller-supplied logger return.
LogReturns(fn, elem) == IF fn = "faillog" THEN Len(elem) = 0 ELSE TRUE

(***************************** ExtendedError ********************************)
NilErr == [kind |-> "nil"]
Ptr(i) == [kind |-> "ptr", ref |-> i]
Val(e) == [kind |-> "val", obj |-> e]
NoRet == [kind |-> "none"]

\* Mutant of New: a Panic or Fail id keeps the defaults of the other ids.
NewNoFatal(err, id, usermsg) ==
    [werr |-> err, Id |-> IF id = Fail \/ id = Panic THEN id ELSE LogErr,
     usermsg |-> usermsg, level |-> 1, logfn |-> ErrLogger,
     printfn |-> ErrPrinter, stackFrames |-> 3, Handled |-> FALSE]

\* Mutant of New: the id is stored as given.
NewKeepId(err, id, usermsg) ==
    [werr |-> err, Id |-> id, usermsg |-> usermsg,
     level |-> IF id = Fail \/ id = Panic THEN 4 ELSE 1,
     logfn |-> IF id = Fail \/ id = Panic THEN FailLogger ELSE ErrLogger,
     printfn |-> ErrPrinter,
     stackFrames |-> IF id = Fail \/ id = Panic THEN -1 ELSE 3,
     Handled |-> FALSE]

New(err, id, usermsg) ==
    IF id = Fail \/ id = Panic
    THEN [werr |-> err, Id |-> id, usermsg |-> usermsg, level |-> 4,
          logfn |-> FailLogger, printfn |-> ErrPrinter, stackFrames |-> -1,
          Handled |-> FALSE]
    ELSE [werr |-> err, Id |-> LogErr, usermsg |-> usermsg, level |-> 1,
          logfn |-> ErrLogger, printfn |-> ErrPrinter, stackFrames |-> 3,
          Handled |-> FALSE]

\* Mutant of Log: without an explicit logger the package default is read again.
LogRereads(e, level, logfn) ==
    [e EXCEPT !.level = level, !.logfn = IF Len(logfn) > 0 THEN logfn[1] ELSE ErrLogger]

\* logfn is the variadic argument: <<>> or <<f>>
Log(e, level, logfn) ==
    IF Len(logfn) > 0 THEN [e EXCEPT !.level = level, !.logfn = logfn[1]]
    ELSE [e EXCEPT !.level = level]

\* (*ExtendedError).Print
Print_(e, printfn) == [e EXCEPT !.printfn = printfn]

Stack(e, frames) == [e EXCEPT !.stackFrames = frames]

Unwrap(e) == e.werr

\* ExtendedError.Error, and error.Error of any non-nil error value; h is the
\* heap a pointer is read through
RECURSIVE Error(_, _)
RECURSIVE ErrorOf(_, _)
Error(e, h) ==
    IF e.werr # NilErr THEN e.usermsg \o <<":", " ">> \o ErrorOf(e.werr, h)
    ELSE e.usermsg
ErrorOf(err, h) ==
    CASE err.kind = "plain" -> err.msg
      [] err.kind = "ptr" -> Error(h[err.ref], h)
      [] err.kind = "val" -> Error(err.obj, h)

(***************************** stack traces *********************************)
\* pkgerr.WithStack(err) in handle: an error that exposes StackTrace(), with
\* the d frames of the call stack at that point
WithStack(d) == [tracer |-> TRUE, st |-> [k \in 1..d |-> k]]

\* fmt.Sprintf("%+v", st) of a StackTrace: each frame on a line of its own
RECURSIVE FormatStack(_)
FormatStack(st) ==
    IF st = <<>> THEN <<>> ELSE <<"\n", "@", Digit(Head(st))>> \o FormatStack(Tail(st))

\* Mutant of stackFrames: a positive budget does not cut the trace.
stackFramesAll(err, f) ==
    IF ~err.tracer THEN <<>>
    ELSE IF Len(f) > 0 /\ f[1] = 0 THEN <<>>
    ELSE FormatStack(err.st)

\* err: [tracer, st], whether the error is a stackTracer and its trace;
\* f: the variadic frame budget
stackFrames(err, f) ==
    IF ~err.tracer THEN <<>>
    ELSE LET fr == IF Len(f) > 0 THEN f[1] ELSE 0
         IN  IF Len(f) > 0 /\ fr = 0 THEN <<>>
             ELSE IF fr > 0 /\ fr < Len(err.st) THEN FormatStack(SubSeq(err.st, 1, fr))
             ELSE FormatStack(err.st)

(***************************** handle ***************************************)
PrintedForUser == <<"\n","P","r","i","n","t","e","d"," ","f","o","r"," ","u","s","e","r",":"," ">>

PrintCall(fn, em) == [via |-> "printfn", fn |-> fn, args |-> <<em>>]
LogCall(fn, id, detail) == [via |-> "logfn", fn |-> fn, args |-> <<id, detail>>]

\* handle(err, logmsg) with a call stack of d frames: the functions it calls
\* and whether it returns
handle(err, logmsg, d, h) ==
    LET em == IF err.werr # NilErr
              THEN err.usermsg \o <<":", " ">> \o ErrorOf(Unwrap(err), h)
              ELSE err.usermsg
        st == stackFrames(WithStack(d), <<err.stackFrames>>)
        detail == IF err.stackFrames = 0
                  THEN logmsg \o PrintedForUser \o Error(err, h) \o <<"\n">>
                  ELSE logmsg \o PrintedForUser \o Error(err, h) \o <<"\n">> \o st \o <<" ">>
    IN  [calls |-> <<PrintCall(err.printfn, em)>> \o
                   (IF err.level > 0 THEN <<LogCall(err.logfn, err.Id, detail)>> ELSE <<>>),
         returns |-> IF err.level > 0 THEN LogReturns(err.logfn, <<err.Id, detail>>) ELSE TRUE]

\* (*ExtendedError).Handle on the object e: outcome "return" with e marked
\* Handled, "exit" when the log function ended the process, "panic" when
\* concatMsg failed before handle was called
HandleMethod(e, logmsg, d, h) ==
    LET cm == concatMsg(logmsg)
    IN  IF ~cm.ok THEN [outcome |-> "panic", calls |-> <<>>, obj |-> e]
        ELSE LET r == handle(e, cm.s, d, h)
             IN  IF r.returns
                 THEN [outcome |-> "return", calls |-> r.calls, obj |-> [e EXCEPT !.Handled = TRUE]]
                 ELSE [outcome |-> "exit", calls |-> r.calls, obj |-> e]

(***************************** Handle ***************************************)
\* Mutant of Handle: a malformed call still handles the error.
HandleAlways(err, msg, d, h) ==
    IF err = NilErr
    THEN [outcome |-> "return", calls |-> <<>>, ret |-> NilErr, made |-> <<>>]
    ELSE LET e == IF err.kind = "val" THEN err.obj ELSE New(err, LogErr, <<>>)
             r == HandleMethod(e, <<>>, d, h)
         IN  [outcome |-> r.outcome, calls |-> r.calls,
              ret |-> IF r.outcome = "return" THEN Val(r.obj) ELSE NoRet,
              made |-> IF err.kind = "val" THEN <<>> ELSE <<e>>]

\* the package-level Handle(err, msg...) with a call stack of d frames.
\* The type assertion err.(ExtendedError) holds of an ExtendedError value
\* only; a *ExtendedError fails it like any other error type.
\* NewExtendedError, which Handle calls, is New under the name its doc comment
\* gives it (src/errors.go:74).
Handle(err, msg, d, h) ==
    IF err = NilErr
    THEN [outcome |-> "return", calls |-> <<>>, ret |-> NilErr, made |-> <<>>]
    ELSE IF err.kind = "val"
    THEN LET r == HandleMethod(err.obj, msg, d, h)
         IN  [outcome |-> r.outcome, calls |-> r.calls,
              ret |-> IF r.outcome = "return" THEN Val(r.obj) ELSE NoRet,
              made |-> <<>>]
    ELSE IF Len(msg) > 0 /\ msg[1].kind = "string"
    THEN LET cm == concatMsg(Tail(msg))
         IN  IF ~cm.ok
             THEN [outcome |-> "panic", calls |-> <<>>, ret |-> NoRet, made |-> <<>>]
             ELSE LET e == New(err, msg[1].s, cm.s)
                      r == HandleMethod(e, <<>>, d, h)
                  IN  [outcome |-> r.outcome, calls |-> r.calls,
                       ret |-> IF r.outcome = "return" THEN Val(r.obj) ELSE NoRet,
                       made |-> <<e>>]
    ELSE [outcome |-> "return", calls |-> <<>>, ret |-> err, made |-> <<>>]

(***************************** inputs ***************************************)
SomeId == <<"S","o","m","e","I","d">>
Detail == <<"d","e","t","a","i","l">>

PlainErrs == {[kind |-> "plain", msg |-> <<"e">>, tracer |-> FALSE],
              [kind |-> "plain", msg |-> <<"t">>, tracer |-> TRUE]}
NewIds == {LogErr, Panic, Fail, SomeId}
UserMsgs == {<<"u">>}
Levels == {-1, 0, 2}
Budgets == {-1, 0, 2}
MsgLists == {<<>>, <<Str(<<"c", " ">>)>>, <<Int_(42)>>,
             <<Str(SomeId), Str(Detail)>>, <<Str(Fail), Str(Detail)>>}
Depths == 1..MaxDepth

Running == status = "running" /\ nops < MaxOps

StatusOf(outcome) ==
    CASE outcome = "return" -> "running"
      [] outcome = "exit" -> "exited"
      [] outcome = "panic" -> "panicked"

(***************************** actions **************************************)
Init ==
    /\ ErrLogger = "errlog"
    /\ FailLogger = "faillog"
    /\ ErrPrinter = "print"
    /\ heap = <<>>
    /\ status = "running"
    /\ op = [name |-> "init"]
    /\ ret = NoRet
    /\ calls = <<>>
    /\ made = <<>>
    /\ nops = 0
    /\ fin = <<>>
    /\ fout = NoRet

NewOp ==
    \E err \in {NilErr} \cup PlainErrs, id \in NewIds, usermsg \in UserMsgs :
        /\ Running
        /\ Len(heap) < MaxInst
        /\ heap' = Append(heap, New(err, id, usermsg))
        /\ made' = <<New(err, id, usermsg)>>
        /\ ret' = Ptr(Len(heap) + 1)
        /\ op' = [name |-> "New", err |-> err, id |-> id, usermsg |-> usermsg]
        /\ calls' = <<>>
        /\ nops' = nops + 1
        /\ UNCHANGED <<ErrLogger, FailLogger, ErrPrinter, status, fin, fout>>

LogOp ==
    \E i \in DOMAIN heap, level \in Levels, logfn \in {<<>>} \cup {<<f>> : f \in LogFuncs} :
        /\ Running
        /\ heap' = [heap EXCEPT ![i] = Log(heap[i], level, logfn)]
        /\ ret' = Ptr(i)
        /\ op' = [name |-> "Log", self |-> i, level |-> level, logfn |-> logfn]
        /\ calls' = <<>>
        /\ made' = <<>>
        /\ nops' = nops + 1
        /\ UNCHANGED <<ErrLogger, FailLogger, ErrPrinter, status, fin, fout>>

PrintOp ==
    \E i \in DOMAIN heap, printfn \in PrintFuncs :
        /\ Running
        /\ heap' = [heap EXCEPT ![i] = Print_(heap[i], printfn)]
        /\ ret' = Ptr(i)
        /\ op' = [name |-> "Print", self |-> i, printfn |-> printfn]
        /\ calls' = <<>>
        /\ made' = <<>>
        /\ nops' = nops + 1
        /\ UNCHANGED <<ErrLogger, FailLogger, ErrPrinter, status, fin, fout>>

StackOp ==
    \E i \in DOMAIN heap, frames \in Budgets :
        /\ Running
        /\ heap' = [heap EXCEPT ![i] = Stack(heap[i], frames)]
        /\ ret' = Ptr(i)
        /\ op' = [name |-> "Stack", self |-> i, frames |-> frames]
        /\ calls' = <<>>
        /\ made' = <<>>
        /\ nops' = nops + 1
        /\ UNCHANGED <<ErrLogger, FailLogger, ErrPrinter, status, fin, fout>>

\* e.Handle(msg...) through the pointer i
HandleMethodOp ==
    \E i \in DOMAIN heap, msg \in MsgLists, d \in Depths :
        LET r == HandleMethod(heap[i], msg, d, heap)
        IN  /\ Running
            /\ heap' = [heap EXCEPT ![i] = r.obj]
            /\ status' = StatusOf(r.outcome)
            /\ ret' = IF r.outcome = "return" THEN Val(r.obj) ELSE NoRet
            /\ calls' = r.calls
            /\ op' = [name |-> "e.Handle", self |-> i, msg |-> msg, d |-> d]
            /\ made' = <<>>
            /\ nops' = nops + 1
            /\ UNCHANGED <<ErrLogger, FailLogger, ErrPrinter, fin, fout>>

\* Handle(err, msg...); err is nil, a foreign error, a pointer New returned or
\* the ExtendedError value the last Handle call returned
HandleOp ==
    \E err \in {NilErr} \cup PlainErrs \cup {Ptr(i) : i \in DOMAIN heap}
               \cup (IF ret.kind = "val" THEN {ret} ELSE {}),
       msg \in MsgLists, d \in Depths :
        LET r == Handle(err, msg, d, heap)
        IN  /\ Running
            /\ status' = StatusOf(r.outcome)
            /\ ret' = r.ret
            /\ calls' = r.calls
            /\ made' = r.made
            /\ op' = [name |-> "Handle", err |-> err, msg |-> msg, d |-> d]
            /\ nops' = nops + 1
            /\ UNCHANGED <<ErrLogger, FailLogger, ErrPrinter, heap, fin, fout>>

ErrorOp ==
    \E i \in DOMAIN heap :
        /\ Running
        /\ ret' = [kind |-> "text", s |-> Error(heap[i], heap)]
        /\ op' = [name |-> "Error", self |-> i]
        /\ calls' = <<>>
        /\ made' = <<>>
        /\ nops' = nops + 1
        /\ UNCHANGED <<ErrLogger, FailLogger, ErrPrinter, heap, status, fin, fout>>

UnwrapOp ==
    \E i \in DOMAIN heap :
        /\ Running
        /\ ret' = Unwrap(heap[i])
        /\ op' = [name |-> "Unwrap", self |-> i]
        /\ calls' = <<>>
        /\ made' = <<>>
        /\ nops' = nops + 1
        /\ UNCHANGED <<ErrLogger, FailLogger, ErrPrinter, heap, status, fin, fout>>

\* assignments to the package variables by the importing program
SetErrLogger ==
    \E f \in LogFuncs :
        /\ Running
        /\ f # ErrLogger
        /\ ErrLogger' = f
        /\ op' = [name |-> "SetErrLogger", fn |-> f]
        /\ ret' = NoRet /\ calls' = <<>> /\ made' = <<>>
        /\ nops' = nops + 1
        /\ UNCHANGED <<FailLogger, ErrPrinter, heap, status, fin, fout>>

SetFailLogger ==
    \E f \in LogFuncs :
        /\ Running
        /\ f # FailLogger
        /\ FailLogger' = f
        /\ op' = [name |-> "SetFailLogger", fn |-> f]
        /\ ret' = NoRet /\ calls' = <<>> /\ made' = <<>>
        /\ nops' = nops + 1
        /\ UNCHANGED <<ErrLogger, ErrPrinter, heap, status, fin, fout>>

SetErrPrinter ==
    \E p \in PrintFuncs :
        /\ Running
        /\ p # ErrPrinter
        /\ ErrPrinter' = p
        /\ op' = [name |-> "SetErrPrinter", fn |-> p]
        /\ ret' = NoRet /\ calls' = <<>> /\ made' = <<>>
        /\ nops' = nops + 1
        /\ UNCHANGED <<ErrLogger, FailLogger, heap, status, fin, fout>>

Next ==
    \/ NewOp
    \/ LogOp
    \/ PrintOp
    \/ StackOp
    \/ HandleMethodOp
    \/ HandleOp
    \/ ErrorOp
    \/ UnwrapOp
    \/ SetErrLogger
    \/ SetFailLogger
    \/ SetErrPrinter

Spec == Init /\ [][Next]_vars

(***************************** concatMsg alone ******************************)
ConcatArgs == {Str(<<"A">>), Str(<<"A", " ">>), Str(<<"B">>), Str(<<"C">>), Int_(42)}
ArgLists == UNION {[1..n -> ConcatArgs] : n \in 0..MaxLen}

InitConcat ==
    /\ ErrLogger = "errlog"
    /\ FailLogger = "faillog"
    /\ ErrPrinter = "print"
    /\ heap = <<>>
    /\ status = "running"
    /\ op = [name |-> "init"]
    /\ ret = NoRet
    /\ calls = <<>>
    /\ made = <<>>
    /\ nops = 0
    /\ fin \in ArgLists
    /\ fout = NoRet

ConcatStep ==
    /\ fout = NoRet
    /\ fout' = concatMsg(fin)
    /\ UNCHANGED <<ErrLogger, FailLogger, ErrPrinter, heap, status, op, ret, calls, made, nops, fin>>

NextConcat == ConcatStep

SpecConcat == InitConcat /\ [][NextConcat]_vars

(***************************** properties ***********************************)
IsLogCall(c) == c.via = "logfn"
IsPrintCall(c) == c.via = "printfn"
LogCalls(cs) == SelectSeq(cs, IsLogCall)
PrintCalls(cs) == SelectSeq(cs, IsPrintCall)

\* number of stack frames rendered in a text (FormatStack marks each with "@")
FramesIn(text) == Cardinality({k \in DOMAIN text : text[k] = "@"})

\* strings.Contains, strings.HasSuffix, strings.HasPrefix
Contains(s, sub) == \E i \in 0..(Len(s) - Len(sub)) : SubSeq(s, i + 1, i + Len(sub)) = sub

HasSuffix(s, suf) == Len(suf) <= Len(s) /\ SubSeq(s, Len(s) - Len(suf) + 1, Len(s)) = suf

HasPrefix(s, pre) == Len(pre) <= Len(s) /\ SubSeq(s, 1, Len(pre)) = pre

Min(a, b) == IF a < b THEN a ELSE b

\* the object a Handle call was given, when err is an ExtendedError or a pointer to one
Target(err, h) == IF err.kind = "ptr" THEN h[err.ref] ELSE err.obj

\* C1: for every err that is an ExtendedError (the pointer New returns
\* included) and every context list, the package-level Handle delegates to the
\* instance's Handle: its print function gets its display string, its log
\* function (level > 0) gets its own Id and the context, and no new
\* ExtendedError is constructed.
C1_HandleDelegates ==
    (op.name = "Handle" /\ op.err.kind \in {"ptr", "val"}) =>
        LET e == Target(op.err, heap)
        IN  /\ made = <<>>
            /\ Len(PrintCalls(calls)) = 1
            /\ calls[1] = PrintCall(e.printfn, Error(e, heap))
            /\ e.level > 0 =>
                  /\ Len(LogCalls(calls)) = 1
                  /\ calls[2].fn = e.logfn
                  /\ calls[2].args[1] = e.Id
                  /\ HasPrefix(calls[2].args[2], concatMsg(op.msg).s)

IsC2Call == op.name = "Handle" /\ op.err.kind = "plain" /\ op.msg = <<Str(SomeId), Str(Detail)>>

\* C2 (as claimed): Handle(plainErr, "SomeId", "detail") returns a handled
\* error whose Error() contains "detail: " immediately followed by plainErr's
\* message, and the id given to the log function is "SomeId".
C2_Original ==
    IsC2Call =>
        /\ ret.kind = "val"
        /\ ret.obj.Handled
        /\ Contains(Error(ret.obj, heap), Detail \o <<":", " ">> \o op.err.msg)
        /\ Len(LogCalls(calls)) = 1
        /\ LogCalls(calls)[1].args[1] = SomeId

\* C2 (amended): Handle(plainErr, "SomeId", "detail") constructs an
\* ExtendedError with user message "detail: \n", calls the current ErrLogger
\* once with the id LogErr (an id other than Panic and Fail is normalized), and,
\* when that logger returns, returns a handled error whose Error() is
\* "detail: \n: " followed by plainErr's message.
C2_Amended ==
    IsC2Call =>
        /\ Len(made) = 1
        /\ made[1].usermsg = Detail \o <<":", " ", "\n">>
        /\ Len(LogCalls(calls)) = 1
        /\ LogCalls(calls)[1].fn = ErrLogger
        /\ LogCalls(calls)[1].args[1] = LogErr
        /\ (status = "running") = (ErrLogger # "faillog")
        /\ status = "running" =>
              /\ ret.kind = "val"
              /\ ret.obj.Handled
              /\ Error(ret.obj, heap) = Detail \o <<":", " ", "\n", ":", " ">> \o op.err.msg
              /\ ~Contains(Error(ret.obj, heap), Detail \o <<":", " ">> \o op.err.msg)

C2_Witness == IsC2Call /\ ret.kind = "val" /\ ret.obj.Handled /\ Len(calls) = 2

IsFatalId(id) == id = Panic \/ id = Fail

\* C3 (as claimed): Handle on an ExtendedError constructed with Panic or Fail
\* never returns to its caller, whatever Log, Print and Stack calls were made.
C3_Original ==
    (op.name = "e.Handle" /\ IsFatalId(heap[op.self].Id)) => status # "running"

\* C3 (amended): Handle on an ExtendedError constructed with Panic or Fail
\* does not return when, at the call, the level is > 0 and the log function is
\* the default fatal logger faillog: the process exits through it (or, for a
\* first context argument that is no string, Handle panics before handling).
\* With a level <= 0 or another log function, and a context concatMsg accepts,
\* Handle returns with Handled set.
C3_Amended ==
    (op.name = "e.Handle" /\ IsFatalId(heap[op.self].Id)) =>
        LET e == heap[op.self]
            fatal == e.level > 0 /\ e.logfn = "faillog"
        IN  /\ fatal => status # "running" /\ ~e.Handled
            /\ (fatal /\ concatMsg(op.msg).ok) => status = "exited"
            /\ (~fatal /\ concatMsg(op.msg).ok) =>
                  status = "running" /\ e.Handled /\ ret = Val(e)

C3_Witness ==
    /\ op.name = "e.Handle"
    /\ heap[op.self].Id = Fail
    /\ heap[op.self].printfn = "custprint"
    /\ status = "exited"

\* C4: each call of the Handle method invokes the configured print function
\* exactly once whatever the level, and the configured log function exactly
\* once if the level is > 0 and not at all if it is <= 0.
C4_PrintOnceLogByLevel ==
    op.name = "e.Handle" =>
        LET e == heap[op.self]
        IN  /\ Len(PrintCalls(calls)) = 1
            /\ PrintCalls(calls)[1].fn = e.printfn
            /\ e.level > 0 => Len(LogCalls(calls)) = 1 /\ LogCalls(calls)[1].fn = e.logfn
            /\ e.level <= 0 => Len(LogCalls(calls)) = 0

\* C4 restricted to the calls whose context concatMsg accepts (not the claim:
\* the calls left out are those C10 is about)
C4_WhenContextAccepted ==
    (op.name = "e.Handle" /\ concatMsg(op.msg).ok) =>
        LET e == heap[op.self]
        IN  /\ Len(PrintCalls(calls)) = 1
            /\ PrintCalls(calls)[1].fn = e.printfn
            /\ e.level > 0 => Len(LogCalls(calls)) = 1 /\ LogCalls(calls)[1].fn = e.logfn
            /\ e.level <= 0 => Len(LogCalls(calls)) = 0

\* what C5 says of one step of the program
C5_Step ==
    /\ op'.name \in {"SetErrLogger", "SetFailLogger", "SetErrPrinter"} => heap' = heap
    /\ (op'.name = "Log" /\ op'.logfn = <<>>) =>
          heap'[op'.self].logfn = heap[op'.self].logfn
    /\ op'.name = "e.Handle" =>
          \A k \in DOMAIN calls' :
              calls'[k].fn = IF IsPrintCall(calls'[k]) THEN heap[op'.self].printfn
                             ELSE heap[op'.self].logfn
    /\ op'.name = "New" =>
          /\ heap'[Len(heap')].printfn = ErrPrinter
          /\ heap'[Len(heap')].logfn = IF IsFatalId(op'.id) THEN FailLogger ELSE ErrLogger
    /\ (op'.name = "Handle" /\ made' # <<>>) =>
          /\ made'[1].printfn = ErrPrinter
          /\ made'[1].logfn = IF IsFatalId(op'.msg[1].s) THEN FailLogger ELSE ErrLogger

\* C5: ErrLogger, FailLogger and ErrPrinter are read when New is called and at
\* no other time: an assignment to one of them leaves every constructed
\* instance unchanged, Log without a logger keeps the instance's log function,
\* Handle calls the instance's own functions and not the current defaults, and
\* New called after the assignment takes the new values.
C5_DefaultsReadAtNew == [][C5_Step]_vars

\* an instance handled with functions that are no longer the defaults
C5_Witness ==
    /\ op.name = "e.Handle"
    /\ heap[op.self].Id = LogErr
    /\ Len(calls) = 2
    /\ calls[1].fn = "print" /\ ErrPrinter = "custprint"
    /\ calls[2].fn = "errlog"

\* what C6 says of one step of the program
C6_Step ==
    /\ op'.name = "New" =>
          LET e == heap'[Len(heap')]
          IN  /\ Len(heap') = Len(heap) + 1
              /\ e.werr = op'.err
              /\ IF IsFatalId(op'.id)
                 THEN e.Id = op'.id /\ e.level = 4 /\ e.stackFrames < 0 /\ e.logfn = FailLogger
                 ELSE e.Id = LogErr /\ e.level = 1 /\ e.stackFrames = 3 /\ e.logfn = ErrLogger
    /\ op'.name \in {"e.Handle", "Handle", "Error", "Unwrap"} =>
          \A i \in DOMAIN heap :
              /\ heap'[i].Id = heap[i].Id
              /\ heap'[i].level = heap[i].level
              /\ heap'[i].stackFrames = heap[i].stackFrames
              /\ heap'[i].logfn = heap[i].logfn
    /\ \A i \in DOMAIN heap' : heap'[i].Id \in {LogErr, Panic, Fail}
    /\ \A k \in DOMAIN made' : made'[k].Id \in {LogErr, Panic, Fail}

\* C6: New with Panic or Fail yields level 4, a negative stack-frame budget
\* and the fatal logger; New with any other id yields level 1, budget 3, the
\* default logger and the Id LogErr; Handle, Error and Unwrap change none of
\* Id, level, budget and log function; the stored Id is always one of LogErr,
\* Panic, Fail.
C6_NewDefaults == [][C6_Step]_vars

C6_Witness ==
    /\ op.name = "Error"
    /\ heap[op.self].Id = Panic
    /\ heap[op.self].level = 4
    /\ heap[op.self].stackFrames = -1
    /\ heap[op.self].logfn = "faillog"

IsPassThrough(o) ==
    /\ o.name = "Handle"
    /\ \/ o.err = NilErr
       \/ o.err.kind # "val" /\ (o.msg = <<>> \/ o.msg[1].kind # "string")

\* what C7 says of one step of the program
C7_Step ==
    IsPassThrough(op') =>
        /\ ret' = op'.err
        /\ calls' = <<>>
        /\ made' = <<>>
        /\ heap' = heap
        /\ status' = "running"

\* C7: the package-level Handle returns nil for a nil err, and the very same
\* err when err is no ExtendedError and the context is empty or does not start
\* with a string; in both cases no print or log function is invoked, no
\* ExtendedError is constructed and none is marked handled.
C7_PassThrough == [][C7_Step]_vars

C7_Witness ==
    /\ op.name = "Handle"
    /\ op.err.kind = "plain"
    /\ op.msg = <<Int_(42)>>
    /\ ret = op.err

\* what C8 says of one step of the program
C8_Step ==
    /\ op'.name = "New" => ~heap'[Len(heap')].Handled
    /\ (op'.name = "e.Handle" /\ status' = "running") => heap'[op'.self].Handled
    /\ (op'.name = "e.Handle" /\ heap[op'.self].Handled) => LogCalls(calls') = <<>>

\* C8: Handled is false after New and true once a Handle call completed, and
\* a Handle call on an instance whose Handled is already true does not invoke
\* the log function again.
C8_LoggedAtMostOnce == [][C8_Step]_vars

\* a Handle call, on an instance or through the package-level Handle, that
\* reached the log function, and the object it handled
IsLoggedHandle == op.name \in {"e.Handle", "Handle"} /\ LogCalls(calls) # <<>>
HandledObj ==
    IF op.name = "e.Handle" THEN heap[op.self]
    ELSE IF made # <<>> THEN made[1] ELSE op.err.obj

HasTracer(err) == err.kind = "plain" /\ err.tracer

\* C9 (as claimed): the stack-trace text in the logged detail is non-empty
\* only if the wrapped error exposes a stack trace and the budget is not 0; it
\* holds min(N, available) frames for a budget N > 0 and all for a budget < 0;
\* with budget 0 neither the printed nor the logged output holds a frame.
C9_Original ==
    IsLoggedHandle =>
        LET e == HandledObj
            n == FramesIn(LogCalls(calls)[1].args[2])
        IN  /\ n > 0 => HasTracer(e.werr) /\ e.stackFrames # 0
            /\ (n > 0 /\ e.stackFrames > 0) => n = Min(e.stackFrames, op.d)
            /\ (n > 0 /\ e.stackFrames < 0) => n = op.d
            /\ e.stackFrames = 0 => n = 0 /\ FramesIn(calls[1].args[1]) = 0

\* C9 (amended): handle takes the stack trace from its own call stack
\* (pkgerr.WithStack of the ExtendedError), never from the wrapped error, so
\* the stack-trace text in the logged detail is non-empty exactly when the
\* budget is not 0, whether or not the wrapped error exposes a stack trace; it
\* holds the top min(N, available) frames for a budget N > 0 and all available
\* frames for a budget < 0; with budget 0 neither the printed nor the logged
\* output holds a frame. The printed output never holds one.
C9_Amended ==
    IsLoggedHandle =>
        LET e == HandledObj
            detail == LogCalls(calls)[1].args[2]
            n == FramesIn(detail)
            k == IF e.stackFrames > 0 THEN Min(e.stackFrames, op.d) ELSE op.d
        IN  /\ (n > 0) = (e.stackFrames # 0)
            /\ e.stackFrames # 0 =>
                  /\ n = k
                  /\ HasSuffix(detail, FormatStack([j \in 1..k |-> j]) \o <<" ">>)
            /\ FramesIn(calls[1].args[1]) = 0

\* a trace cut to the budget, for a wrapped error that exposes none
C9_Witness ==
    /\ IsLoggedHandle
    /\ op.name = "e.Handle"
    /\ ~HasTracer(heap[op.self].werr)
    /\ heap[op.self].stackFrames = 2
    /\ op.d = 3
    /\ FramesIn(LogCalls(calls)[1].args[2]) = 2

\* the concatenation as C10 words it: nothing for no message; otherwise the
\* first message trimmed and ": ", each middle message and ", ", the last
\* message when it is not the first, and a newline
RECURSIVE JoinFrom(_, _)
JoinFrom(msg, i) ==
    IF i > Len(msg) THEN <<>>
    ELSE IF i = Len(msg) THEN Sprint(msg[i])
    ELSE Sprint(msg[i]) \o <<",", " ">> \o JoinFrom(msg, i + 1)

Concatenation(msg) ==
    IF msg = <<>> THEN <<>>
    ELSE TrimRight(Sprint(msg[1])) \o <<":", " ">> \o JoinFrom(msg, 2) \o <<"\n">>

\* C10: for every list of context messages concatMsg is defined (no runtime
\* failure) and yields the concatenation above; ("A", "B", "C") yields
\* "A: B, C\n".
C10_ConcatDefined ==
    fout # NoRet => fout.ok /\ fout.s = Concatenation(fin)

\* C10 on the lists concatMsg accepts (not the claim)
C10_WhenFirstIsString ==
    (fout # NoRet /\ (fin = <<>> \/ fin[1].kind = "string")) =>
        fout.ok /\ fout.s = Concatenation(fin)

====
